---- MODULE Spec2Model ----
(***************************************************************************)
(* Model of the chat client in src/App.tsx: the per-room message lists of  *)
(* each client (React state `sessions`), the active room, the history      *)
(* fetch and the realtime subscription started by the effect on            *)
(* activeSessionId, and handleSendMessage with the reply generation.       *)
(* The remote `messages` table, the realtime feed and the generation       *)
(* service are the environment the code talks to.                          *)
(***************************************************************************)
EXTENDS Integers, Sequences, FiniteSets, Bags, TLC

(* ---------------- bounds of the model ---------------- *)
\* total number of messages created (user messages and replies)
MaxMsgs == 2
\* total number of room selections over all clients
MaxSwitches == 2
\* feed events queued for one client beyond which the feed redelivers nothing
MaxFeed == 1
\* messages already in a room when a specification starts from a filled room
MaxPrior == 6

(* ---------------- program constants ---------------- *)
\* .limit(100) of the history query, scaled down so that a room's rows can
\* outnumber it within MaxMsgs
HistoryLimit == 1
\* activeSession.messages.slice(-5)
ContextK == 5

\* the client processes (one browser tab per participant) a system may have
Clients == {"A", "B"}
\* INITIAL_SESSIONS ids
Rooms == {"public-room-1", "creative-space"}
FirstRoom == "public-room-1"

\* the value of an optional that is absent
NoMsg == [id |-> 0, role |-> "none", text |-> "", timestamp |-> 0,
          user_name |-> "", session_id |-> ""]

VARIABLES
  sessions,         \* sessions[c][r]: the messages array of room r in client c
  activeSessionId,  \* activeSessionId[c]
  channels,         \* channels[c][r]: number of open realtime channels of c on r
  fetches,          \* fetches[c]: history requests of c in flight (requests for the
                    \* same room in the same stage with the same rows count once)
  feed,             \* feed[c]: INSERT events on their way to c's channel callback
  table,            \* table[r]: rows of the remote messages table with session_id r
  sends,            \* the handleSendMessage invocations, in order of call
  clock,            \* Date.now()
  nextId,           \* the next value of Math.random().toString(36).substring(7)
  genCalls,         \* bag of generateResponse calls, [by, for]
  leaveSnap,        \* history: leaveSnap[c][r], the messages of r when c last left r
  leaveRows,        \* history: leaveRows[c][r], the rows of r in the table at that
                    \* time, -1 if not recorded
  switches          \* number of room selections made so far

vars == <<sessions, activeSessionId, channels, fetches, feed, table, sends,
          clock, nextId, genCalls, leaveSnap, leaveRows, switches>>

(* ---------------- helpers ---------------- *)
Range(s) == {s[i] : i \in 1..Len(s)}

\* s.messages.find(m => m.id === id) is truthy
HasId(msgs, id) == \E i \in 1..Len(msgs) : msgs[i].id = id

Min(a, b) == IF a < b THEN a ELSE b

\* insert m into the ascending sequence s after every entry not larger
RECURSIVE InsertByTs(_, _)
InsertByTs(s, m) ==
  IF s = <<>> THEN <<m>>
  ELSE IF Head(s).timestamp <= m.timestamp
       THEN <<Head(s)>> \o InsertByTs(Tail(s), m)
       ELSE <<m>> \o s

\* .order('timestamp', { ascending: true })
RECURSIVE OrderByTimestamp(_)
OrderByTimestamp(rows) ==
  IF rows = <<>> THEN <<>>
  ELSE InsertByTs(OrderByTimestamp(SubSeq(rows, 1, Len(rows) - 1)), rows[Len(rows)])

\* select('*').eq('session_id', r).order('timestamp').limit(HistoryLimit)
SelectHistory(rows) ==
  LET o == OrderByTimestamp(rows) IN SubSeq(o, 1, Min(Len(o), HistoryLimit))

\* variant: the first k elements of msgs
SliceFirst(msgs, k) ==
  IF Len(msgs) <= k THEN msgs ELSE SubSeq(msgs, 1, k)

\* messages.slice(-k)
SliceLast(msgs, k) ==
  IF Len(msgs) <= k THEN msgs ELSE SubSeq(msgs, Len(msgs) - k + 1, Len(msgs))

\* n copies of m
RECURSIVE Copies(_, _)
Copies(m, n) == IF n = 0 THEN <<>> ELSE <<m>> \o Copies(m, n - 1)

\* the events of s that are not for room r
RECURSIVE DropRoom(_, _)
DropRoom(s, r) ==
  IF s = <<>> THEN <<>>
  ELSE IF Head(s).session_id = r THEN DropRoom(Tail(s), r)
       ELSE <<Head(s)>> \o DropRoom(Tail(s), r)

(* ---------------- initial state ---------------- *)
\* First render of every client in cs: every room empty, the first room
\* active, and the effect has run once: fetchMessages() is in flight and the
\* channel is subscribed.  Nothing has been written to the remote table, and
\* for the clients in loaded the history request has already come back with
\* no rows.
InitFor(cs, loaded) ==
  /\ sessions = [c \in cs |-> [r \in Rooms |-> <<>>]]
  /\ activeSessionId = [c \in cs |-> FirstRoom]
  /\ channels = [c \in cs |-> [r \in Rooms |-> IF r = FirstRoom THEN 1 ELSE 0]]
  /\ fetches = [c \in cs |->
                  IF c \in loaded THEN {}
                  ELSE {[room |-> FirstRoom, stage |-> "sent", data |-> <<>>]}]
  /\ feed = [c \in cs |-> <<>>]
  /\ table = [r \in Rooms |-> <<>>]
  /\ sends = <<>>
  /\ clock = 1
  /\ nextId = 1
  /\ genCalls = EmptyBag
  /\ leaveSnap = [c \in cs |-> [r \in Rooms |-> <<>>]]
  /\ leaveRows = [c \in cs |-> [r \in Rooms |-> -1]]
  /\ switches = 0

\* the client processes of the system being run
Procs == DOMAIN activeSessionId

\* one client and the services it talks to
Init == InitFor({"A"}, {})

\* two clients on the same remote table
InitTwo == InitFor(Clients, {})

(* ---------------- the effect on activeSessionId ---------------- *)
\* a cleanup that does not release the channel
RemoveChannel_Leak(chs, r) == chs

\* supabase.removeChannel(channel) of the cleanup: c's channel on r is closed
RemoveChannel(chs, r) == [chs EXCEPT ![r] = IF @ > 0 THEN @ - 1 ELSE 0]

\* variant: the effect leaves the channel of r closed until the history arrives
Subscribe_AfterLoad(chs, r) == chs

\* supabase.channel(`room-${r}`).on(...).subscribe()
Subscribe(chs, r) == [chs EXCEPT ![r] = @ + 1]

\* onSelect={setActiveSessionId}: the active room changes, React runs the
\* cleanup of the previous effect and then the effect for the new room:
\* fetchMessages() is started (not awaited) and the channel is subscribed.
SelectSession(c, r) ==
  LET old == activeSessionId[c] IN
  /\ r # old
  /\ switches < MaxSwitches
  /\ switches' = switches + 1
  /\ activeSessionId' = [activeSessionId EXCEPT ![c] = r]
  /\ channels' = [channels EXCEPT ![c] = Subscribe(RemoveChannel(channels[c], old), r)]
  /\ feed' = [feed EXCEPT ![c] =
                IF RemoveChannel(channels[c], old)[old] = 0 THEN DropRoom(@, old) ELSE @]
  /\ fetches' = [fetches EXCEPT ![c] = @ \cup {[room |-> r, stage |-> "sent", data |-> <<>>]}]
  /\ UNCHANGED <<sessions, table, sends, clock, nextId, genCalls>>

\* history of the selection made by SelectSession(c, r), kept by the
\* specification that compares a room before and after a round trip
RecordLeave(c) ==
  LET old == activeSessionId[c] IN
  /\ leaveSnap' = [leaveSnap EXCEPT ![c][old] = sessions[c][old]]
  /\ leaveRows' = [leaveRows EXCEPT ![c][old] = Len(table[old])]

NoRecord == UNCHANGED <<leaveSnap, leaveRows>>

\* the remote table answers the history query of fetchMessages with the
\* rows it holds at that moment
HistoryAnswer(c, f) ==
  /\ f \in fetches[c]
  /\ f.stage = "sent"
  /\ fetches' = [fetches EXCEPT ![c] =
                   (@ \ {f}) \cup {[room |-> f.room, stage |-> "ok",
                                    data |-> SelectHistory(table[f.room])]}]
  /\ UNCHANGED <<sessions, activeSessionId, channels, feed, table, sends,
                 clock, nextId, genCalls, leaveSnap, leaveRows, switches>>

\* a continuation that stores the null data of a failed query
HistoryError_Fatal(c, f) ==
  /\ f \in fetches[c]
  /\ f.stage = "sent"
  /\ fetches' = [fetches EXCEPT ![c] = @ \ {f}]
  /\ sessions' = [sessions EXCEPT ![c][f.room] = <<>>]
  /\ UNCHANGED <<activeSessionId, channels, feed, table, sends,
                 clock, nextId, genCalls, leaveSnap, leaveRows, switches>>

\* the history query fails: { data: null, error }; the continuation of
\* fetchMessages skips the update, so the request just ends
HistoryError(c, f) ==
  /\ f \in fetches[c]
  /\ f.stage = "sent"
  /\ fetches' = [fetches EXCEPT ![c] = @ \ {f}]
  /\ UNCHANGED <<sessions, activeSessionId, channels, feed, table, sends,
                 clock, nextId, genCalls, leaveSnap, leaveRows, switches>>

\* s.id === activeSessionId ? { ...s, messages: data } : s
LoadInitial(msgs, data) == data

\* the continuation of fetchMessages after the await; activeSessionId is the
\* value captured by the closure, i.e. the room the request was made for
FetchResolve(c, f) ==
  /\ f \in fetches[c]
  /\ f.stage = "ok"
  /\ fetches' = [fetches EXCEPT ![c] = @ \ {f}]
  /\ sessions' = [sessions EXCEPT ![c][f.room] = LoadInitial(@, f.data)]
  /\ UNCHANGED <<activeSessionId, channels, feed, table, sends, clock, nextId,
                 genCalls, leaveSnap, leaveRows, switches>>

(* ---------------- the realtime feed ---------------- *)
\* a callback without the duplicate check
OnInsert_NoDedup(msgs, newMessage) == Append(msgs, newMessage)

\* if (s.messages.find(m => m.id === newMessage.id)) return s;
\* return { ...s, messages: [...s.messages, newMessage] };
OnInsert(msgs, newMessage) ==
  IF HasId(msgs, newMessage.id) THEN msgs ELSE Append(msgs, newMessage)

\* a callback that asks for a reply to every user message it receives
OnInsertCalls_Trigger(c, newMessage) ==
  IF newMessage.role = "user"
  THEN SetToBag({[by |-> c, for |-> newMessage.id]})
  ELSE EmptyBag

\* generateResponse calls made by the INSERT callback: it makes none
OnInsertCalls(c, newMessage) == EmptyBag

\* the INSERT callback of the channel runs for the next event; the filter of
\* the channel makes the event's room the room captured by the closure
FeedDeliver(c) ==
  /\ feed[c] # <<>>
  /\ LET newMessage == Head(feed[c]) IN
       /\ sessions' = [sessions EXCEPT ![c][newMessage.session_id] = OnInsert(@, newMessage)]
       /\ genCalls' = genCalls (+) OnInsertCalls(c, newMessage)
  /\ feed' = [feed EXCEPT ![c] = Tail(@)]
  /\ UNCHANGED <<activeSessionId, channels, fetches, table, sends, clock, nextId,
                 leaveSnap, leaveRows, switches>>

\* at-least-once delivery: the feed sends again a row the client already holds
Redeliver(c, r, i) ==
  /\ channels[c][r] > 0
  /\ i \in 1..Len(sessions[c][r])
  /\ sessions[c][r][i] \in Range(table[r])
  /\ Len(feed[c]) < MaxFeed
  /\ feed' = [feed EXCEPT ![c] = Append(@, sessions[c][r][i])]
  /\ UNCHANGED <<sessions, activeSessionId, channels, fetches, table, sends,
                 clock, nextId, genCalls, leaveSnap, leaveRows, switches>>

\* the transport loses the channel of c on r (CHANNEL_ERROR, TIMED_OUT or
\* CLOSED): the events in flight are lost.  subscribe() is called without a
\* status callback, so no code of the client runs.
FeedDrop(c, r) ==
  /\ channels[c][r] > 0
  /\ channels' = [channels EXCEPT ![c][r] = 0]
  /\ feed' = [feed EXCEPT ![c] = DropRoom(@, r)]
  /\ UNCHANGED <<sessions, activeSessionId, fetches, table, sends,
                 clock, nextId, genCalls, leaveSnap, leaveRows, switches>>

\* the realtime client joins the lost channel of the active room again on its
\* own; the rows inserted in between are not replayed and no code of the
\* client runs
FeedRejoin(c) ==
  /\ channels[c][activeSessionId[c]] = 0
  /\ channels' = [channels EXCEPT ![c][activeSessionId[c]] = 1]
  /\ UNCHANGED <<sessions, activeSessionId, fetches, feed, table, sends,
                 clock, nextId, genCalls, leaveSnap, leaveRows, switches>>

\* a committed row is pushed to every open channel filtered on its room
Broadcast(fd, m) ==
  [c \in Procs |-> fd[c] \o Copies(m, channels[c][m.session_id])]

(* ---------------- handleSendMessage ---------------- *)
\* variant: the message is put in the local list before it is written
HandleSendMessage_Optimistic(c) ==
  /\ nextId <= MaxMsgs
  /\ LET newUserMessage == [id |-> nextId, role |-> "user", text |-> "hi",
                            timestamp |-> clock, user_name |-> c,
                            session_id |-> activeSessionId[c]]
     IN /\ sends' = Append(sends,
                      [client |-> c, session_id |-> activeSessionId[c],
                       msg |-> newUserMessage,
                       context |-> SliceLast(sessions[c][activeSessionId[c]], ContextK),
                       pc |-> "insert", response |-> <<>>, bot |-> NoMsg])
        /\ sessions' = [sessions EXCEPT ![c][activeSessionId[c]] =
                          Append(@, newUserMessage)]
  /\ nextId' = nextId + 1
  /\ clock' = clock + 1
  /\ UNCHANGED <<activeSessionId, channels, fetches, feed, table,
                 genCalls, leaveSnap, leaveRows, switches>>

\* The chat is rendered only once userProfile is set, so every call passes
\* the `if (!userProfile) return` guard.  The message is built and the
\* insert is awaited.
HandleSendMessage(c) ==
  /\ nextId <= MaxMsgs
  /\ LET newUserMessage == [id |-> nextId, role |-> "user", text |-> "hi",
                            timestamp |-> clock, user_name |-> c,
                            session_id |-> activeSessionId[c]]
     IN sends' = Append(sends,
                   [client |-> c, session_id |-> activeSessionId[c],
                    msg |-> newUserMessage,
                    context |-> SliceLast(sessions[c][activeSessionId[c]], ContextK),
                    pc |-> "insert", response |-> <<>>, bot |-> NoMsg])
  /\ nextId' = nextId + 1
  /\ clock' = clock + 1
  /\ UNCHANGED <<sessions, activeSessionId, channels, fetches, feed, table,
                 genCalls, leaveSnap, leaveRows, switches>>

\* variant: generateResponse is called without the row having been written
InsertOk_Unwritten(s) ==
  /\ s \in 1..Len(sends)
  /\ sends[s].pc = "insert"
  /\ genCalls' = genCalls (+) SetToBag({[by |-> sends[s].client, for |-> sends[s].msg.id]})
  /\ sends' = [sends EXCEPT ![s].pc = "generate"]
  /\ UNCHANGED <<sessions, activeSessionId, channels, fetches, feed, table,
                 clock, nextId, leaveSnap, leaveRows, switches>>

\* the insert of the user message commits; generateResponse is called
InsertOk(s) ==
  /\ s \in 1..Len(sends)
  /\ sends[s].pc = "insert"
  /\ table' = [table EXCEPT ![sends[s].msg.session_id] = Append(@, sends[s].msg)]
  /\ feed' = Broadcast(feed, sends[s].msg)
  /\ genCalls' = genCalls (+) SetToBag({[by |-> sends[s].client, for |-> sends[s].msg.id]})
  /\ sends' = [sends EXCEPT ![s].pc = "generate"]
  /\ UNCHANGED <<sessions, activeSessionId, channels, fetches, clock, nextId,
                 leaveSnap, leaveRows, switches>>

\* an error branch without its return: the reply is requested all the same
InsertFail_NoReturn(s) ==
  /\ s \in 1..Len(sends)
  /\ sends[s].pc = "insert"
  /\ genCalls' = genCalls (+) SetToBag({[by |-> sends[s].client, for |-> sends[s].msg.id]})
  /\ sends' = [sends EXCEPT ![s].pc = "generate"]
  /\ UNCHANGED <<sessions, activeSessionId, channels, fetches, feed, table,
                 clock, nextId, leaveSnap, leaveRows, switches>>

\* the insert fails: console.error and return
InsertFail(s) ==
  /\ s \in 1..Len(sends)
  /\ sends[s].pc = "insert"
  /\ sends' = [sends EXCEPT ![s].pc = "writeError"]
  /\ UNCHANGED <<sessions, activeSessionId, channels, fetches, feed, table,
                 clock, nextId, genCalls, leaveSnap, leaveRows, switches>>

\* the texts generateResponse may return
Responses == {"hello", ""}

\* a reply built from the raw result
BotText_Raw(responseText) == responseText

\* text: responseText || '...'
BotText(responseText) == IF responseText = "" THEN "..." ELSE responseText

\* a catch branch that posts an apology in the room
CatchMessage_Apology(s) ==
  [id |-> 0 - sends[s].msg.id, role |-> "model", text |-> "error",
   timestamp |-> clock, user_name |-> "", session_id |-> sends[s].session_id]

\* what the catch branch writes to the table: nothing
CatchMessage(s) == NoMsg

\* variant: the reply is addressed to the room active when the call returns
GenReturn_CurrentRoom(s, responseText) ==
  /\ s \in 1..Len(sends)
  /\ sends[s].pc = "generate"
  /\ nextId <= MaxMsgs
  /\ sends' = [sends EXCEPT ![s].pc = "insertBot",
                            ![s].response = <<responseText>>,
                            ![s].bot = [id |-> nextId, role |-> "model",
                                        text |-> BotText(responseText),
                                        timestamp |-> clock, user_name |-> "",
                                        session_id |-> activeSessionId[sends[s].client]]]
  /\ nextId' = nextId + 1
  /\ clock' = clock + 1
  /\ UNCHANGED <<sessions, activeSessionId, channels, fetches, feed, table,
                 genCalls, leaveSnap, leaveRows, switches>>

\* generateResponse returns: botMessage is built and its insert awaited
GenReturn(s, responseText) ==
  /\ s \in 1..Len(sends)
  /\ sends[s].pc = "generate"
  /\ nextId <= MaxMsgs
  /\ sends' = [sends EXCEPT ![s].pc = "insertBot",
                            ![s].response = <<responseText>>,
                            ![s].bot = [id |-> nextId, role |-> "model",
                                        text |-> BotText(responseText),
                                        timestamp |-> clock, user_name |-> "",
                                        session_id |-> sends[s].session_id]]
  /\ nextId' = nextId + 1
  /\ clock' = clock + 1
  /\ UNCHANGED <<sessions, activeSessionId, channels, fetches, feed, table,
                 genCalls, leaveSnap, leaveRows, switches>>

\* generateResponse throws: catch (err) { console.error(...) }
GenThrow(s) ==
  /\ s \in 1..Len(sends)
  /\ sends[s].pc = "generate"
  /\ sends' = [sends EXCEPT ![s].pc = "genError", ![s].bot = CatchMessage(s)]
  /\ IF CatchMessage(s) = NoMsg
     THEN UNCHANGED <<table, feed>>
     ELSE /\ table' = [table EXCEPT ![CatchMessage(s).session_id] = Append(@, CatchMessage(s))]
          /\ feed' = Broadcast(feed, CatchMessage(s))
  /\ UNCHANGED <<sessions, activeSessionId, channels, fetches, clock, nextId,
                 genCalls, leaveSnap, leaveRows, switches>>

\* the insert of botMessage commits
BotInsertOk(s) ==
  /\ s \in 1..Len(sends)
  /\ sends[s].pc = "insertBot"
  /\ table' = [table EXCEPT ![sends[s].bot.session_id] = Append(@, sends[s].bot)]
  /\ feed' = Broadcast(feed, sends[s].bot)
  /\ sends' = [sends EXCEPT ![s].pc = "done"]
  /\ UNCHANGED <<sessions, activeSessionId, channels, fetches, clock, nextId,
                 genCalls, leaveSnap, leaveRows, switches>>

\* the insert of botMessage fails; its result is not inspected
BotInsertFail(s) ==
  /\ s \in 1..Len(sends)
  /\ sends[s].pc = "insertBot"
  /\ sends' = [sends EXCEPT ![s].pc = "done"]
  /\ UNCHANGED <<sessions, activeSessionId, channels, fetches, feed, table,
                 clock, nextId, genCalls, leaveSnap, leaveRows, switches>>

(* ---------------- specification ---------------- *)
Next ==
  \/ \E c \in Procs, r \in Rooms : SelectSession(c, r) /\ NoRecord
  \/ \E c \in Procs : \E f \in fetches[c] : HistoryAnswer(c, f)
  \/ \E c \in Procs : \E f \in fetches[c] : HistoryError(c, f)
  \/ \E c \in Procs : \E f \in fetches[c] : FetchResolve(c, f)
  \/ \E c \in Procs : FeedDeliver(c)
  \/ \E c \in Procs, r \in Rooms : \E i \in 1..Len(sessions[c][r]) : Redeliver(c, r, i)
  \/ \E c \in Procs : HandleSendMessage(c)
  \/ \E s \in 1..Len(sends) : InsertOk(s)
  \/ \E s \in 1..Len(sends) : InsertFail(s)
  \/ \E s \in 1..Len(sends), t \in Responses : GenReturn(s, t)
  \/ \E s \in 1..Len(sends) : GenThrow(s)
  \/ \E s \in 1..Len(sends) : BotInsertOk(s)
  \/ \E s \in 1..Len(sends) : BotInsertFail(s)

Spec == Init /\ [][Next]_vars

\* one client, with the history of its room selections recorded
NextResub ==
  \/ \E c \in Procs, r \in Rooms : SelectSession(c, r) /\ RecordLeave(c)
  \/ \E c \in Procs : \E f \in fetches[c] : HistoryAnswer(c, f)
  \/ \E c \in Procs : \E f \in fetches[c] : HistoryError(c, f)
  \/ \E c \in Procs : \E f \in fetches[c] : FetchResolve(c, f)
  \/ \E c \in Procs : FeedDeliver(c)
  \/ \E c \in Procs, r \in Rooms : \E i \in 1..Len(sessions[c][r]) : Redeliver(c, r, i)
  \/ \E c \in Procs : HandleSendMessage(c)
  \/ \E s \in 1..Len(sends) : InsertOk(s)
  \/ \E s \in 1..Len(sends) : InsertFail(s)
  \/ \E s \in 1..Len(sends), t \in Responses : GenReturn(s, t)
  \/ \E s \in 1..Len(sends) : GenThrow(s)
  \/ \E s \in 1..Len(sends) : BotInsertOk(s)
  \/ \E s \in 1..Len(sends) : BotInsertFail(s)

SpecResub == Init /\ [][NextResub]_vars

\* two clients that stay in the first room, on a feed that delivers every
\* row once
NextTwo ==
  \/ \E c \in Procs : \E f \in fetches[c] : HistoryAnswer(c, f)
  \/ \E c \in Procs : \E f \in fetches[c] : HistoryError(c, f)
  \/ \E c \in Procs : \E f \in fetches[c] : FetchResolve(c, f)
  \/ \E c \in Procs : FeedDeliver(c)
  \/ \E c \in Procs : HandleSendMessage(c)
  \/ \E s \in 1..Len(sends) : InsertOk(s)
  \/ \E s \in 1..Len(sends) : InsertFail(s)
  \/ \E s \in 1..Len(sends), t \in Responses : GenReturn(s, t)
  \/ \E s \in 1..Len(sends) : GenThrow(s)
  \/ \E s \in 1..Len(sends) : BotInsertOk(s)
  \/ \E s \in 1..Len(sends) : BotInsertFail(s)

SpecTwo == InitTwo /\ [][NextTwo]_vars

(* ---------------- a remote table whose history queries fail ---------------- *)
\* one client; every history query ends with an error
NextFetchFail ==
  \/ \E c \in Procs, r \in Rooms : SelectSession(c, r) /\ NoRecord
  \/ \E c \in Procs : \E f \in fetches[c] : HistoryError(c, f)
  \/ \E c \in Procs : FeedDeliver(c)
  \/ \E c \in Procs, r \in Rooms : \E i \in 1..Len(sessions[c][r]) : Redeliver(c, r, i)
  \/ \E c \in Procs : HandleSendMessage(c)
  \/ \E s \in 1..Len(sends) : InsertOk(s)
  \/ \E s \in 1..Len(sends) : InsertFail(s)
  \/ \E s \in 1..Len(sends), t \in Responses : GenReturn(s, t)
  \/ \E s \in 1..Len(sends) : GenThrow(s)
  \/ \E s \in 1..Len(sends) : BotInsertOk(s)
  \/ \E s \in 1..Len(sends) : BotInsertFail(s)

SpecFetchFail == Init /\ [][NextFetchFail]_vars

(* ---------------- the send-echo-reply scenario ---------------- *)
Sender == "A"

\* Room FirstRoom is empty; the sender is live in it (its history request has
\* completed with no rows, its channel is open); a second client has just
\* rendered the same room.
ScenarioInit == InitFor(Clients, {Sender})

\* The sender sends one message and stays in the room; the other client only
\* watches.
NextScenario ==
  \/ \E c \in Procs : \E f \in fetches[c] : HistoryAnswer(c, f)
  \/ \E c \in Procs : \E f \in fetches[c] : HistoryError(c, f)
  \/ \E c \in Procs : \E f \in fetches[c] : FetchResolve(c, f)
  \/ \E c \in Procs : FeedDeliver(c)
  \/ \E c \in Procs, r \in Rooms : \E i \in 1..Len(sessions[c][r]) : Redeliver(c, r, i)
  \/ sends = <<>> /\ HandleSendMessage(Sender)
  \/ \E s \in 1..Len(sends) : InsertOk(s)
  \/ \E s \in 1..Len(sends) : InsertFail(s)
  \/ \E s \in 1..Len(sends), t \in Responses : GenReturn(s, t)
  \/ \E s \in 1..Len(sends) : GenThrow(s)
  \/ \E s \in 1..Len(sends) : BotInsertOk(s)
  \/ \E s \in 1..Len(sends) : BotInsertFail(s)

\* Every awaited call of handleSendMessage completes one way or the other, and
\* the feed delivers what it has queued for an open channel.
ScenarioFairness ==
  /\ WF_vars(\E s \in 1..Len(sends) : InsertOk(s) \/ InsertFail(s))
  /\ WF_vars(\E s \in 1..Len(sends) : (\E t \in Responses : GenReturn(s, t)) \/ GenThrow(s))
  /\ WF_vars(\E s \in 1..Len(sends) : BotInsertOk(s) \/ BotInsertFail(s))
  /\ \A c \in Clients : WF_vars(FeedDeliver(c))

SpecScenario == ScenarioInit /\ [][NextScenario]_vars /\ ScenarioFairness

(* ---------------- a feed that can drop ---------------- *)
\* One client, live in the first room (its history request has completed with
\* no rows) and staying there, on a channel that the transport may lose.
DropInit == InitFor({Sender}, {Sender})

NextDrop ==
  \/ \E c \in Procs, r \in Rooms : FeedDrop(c, r)
  \/ \E c \in Procs : FeedRejoin(c)
  \/ \E c \in Procs : FeedDeliver(c)
  \/ \E c \in Procs : HandleSendMessage(c)
  \/ \E s \in 1..Len(sends) : InsertOk(s)
  \/ \E s \in 1..Len(sends) : InsertFail(s)
  \/ \E s \in 1..Len(sends), t \in Responses : GenReturn(s, t)
  \/ \E s \in 1..Len(sends) : GenThrow(s)
  \/ \E s \in 1..Len(sends) : BotInsertOk(s)
  \/ \E s \in 1..Len(sends) : BotInsertFail(s)

\* Awaited calls complete, queued events are delivered, and the realtime
\* client rejoins a lost channel; nothing obliges the transport to fail or the
\* user to act.
DropFairness ==
  /\ WF_vars(\E s \in 1..Len(sends) : InsertOk(s) \/ InsertFail(s))
  /\ WF_vars(\E s \in 1..Len(sends) : (\E t \in Responses : GenReturn(s, t)) \/ GenThrow(s))
  /\ WF_vars(\E s \in 1..Len(sends) : BotInsertOk(s) \/ BotInsertFail(s))
  /\ WF_vars(FeedDeliver(Sender))
  /\ WF_vars(FeedRejoin(Sender))

SpecDrop == DropInit /\ [][NextDrop]_vars /\ DropFairness

(* ---------------- two clients under fair delivery ---------------- *)
\* The two clients of SpecTwo with every history request completing and
\* being applied, every queued event delivered and every awaited call
\* returning.
TwoFairness ==
  /\ \A c \in Clients :
       WF_vars(\E f \in fetches[c] : HistoryAnswer(c, f) \/ HistoryError(c, f))
  /\ \A c \in Clients : WF_vars(\E f \in fetches[c] : FetchResolve(c, f))
  /\ \A c \in Clients : WF_vars(FeedDeliver(c))
  /\ WF_vars(\E s \in 1..Len(sends) : InsertOk(s) \/ InsertFail(s))
  /\ WF_vars(\E s \in 1..Len(sends) : (\E t \in Responses : GenReturn(s, t)) \/ GenThrow(s))
  /\ WF_vars(\E s \in 1..Len(sends) : BotInsertOk(s) \/ BotInsertFail(s))

SpecTwoFair == InitTwo /\ [][NextTwo]_vars /\ TwoFairness

(* ---------------- a room that already holds messages ---------------- *)
\* One client, live in the first room, whose list holds the n rows another
\* user wrote to the room before; it sends messages from there.
Prior(n) ==
  [i \in 1..n |-> [id |-> 100 + i, role |-> "user", text |-> "hi",
                   timestamp |-> i, user_name |-> "B", session_id |-> FirstRoom]]

ContextInit ==
  \E n \in 0..MaxPrior :
    /\ sessions = [c \in {Sender} |-> [r \in Rooms |-> IF r = FirstRoom THEN Prior(n) ELSE <<>>]]
    /\ activeSessionId = [c \in {Sender} |-> FirstRoom]
    /\ channels = [c \in {Sender} |-> [r \in Rooms |-> IF r = FirstRoom THEN 1 ELSE 0]]
    /\ fetches = [c \in {Sender} |-> {}]
    /\ feed = [c \in {Sender} |-> <<>>]
    /\ table = [r \in Rooms |-> IF r = FirstRoom THEN Prior(n) ELSE <<>>]
    /\ sends = <<>>
    /\ clock = n + 1
    /\ nextId = 1
    /\ genCalls = EmptyBag
    /\ leaveSnap = [c \in {Sender} |-> [r \in Rooms |-> <<>>]]
    /\ leaveRows = [c \in {Sender} |-> [r \in Rooms |-> -1]]
    /\ switches = 0

NextContext ==
  \/ \E c \in Procs : FeedDeliver(c)
  \/ \E c \in Procs : HandleSendMessage(c)
  \/ \E s \in 1..Len(sends) : InsertOk(s)
  \/ \E s \in 1..Len(sends) : InsertFail(s)
  \/ \E s \in 1..Len(sends), t \in Responses : GenReturn(s, t)
  \/ \E s \in 1..Len(sends) : GenThrow(s)
  \/ \E s \in 1..Len(sends) : BotInsertOk(s)
  \/ \E s \in 1..Len(sends) : BotInsertFail(s)

SpecContext == ContextInit /\ [][NextContext]_vars

(* ======================= properties ======================= *)
Sends == 1..Len(sends)

\* the INSERT callback of client c ran for the event at the head of its feed
Delivered(c) ==
  /\ feed[c] # <<>>
  /\ feed'[c] = Tail(feed[c])
  /\ activeSessionId' = activeSessionId

\* the continuation of fetchMessages of client c ran for the answered request f
Resolved(c, f) == f \in fetches[c] /\ f.stage = "ok" /\ fetches'[c] = fetches[c] \ {f}

NoDuplicateIds ==
  \A c \in Procs, r \in Rooms :
    \A i, j \in 1..Len(sessions[c][r]) :
      i # j => sessions[c][r][i].id # sessions[c][r][j].id

\* C1: merge-by-id is idempotent.  No room list of any client ever holds two
\* entries with the same id, and delivering a message whose id is already in
\* the room's list (an echo or a redelivery) leaves the list as it was.
C1_MergeIdempotent ==
  /\ []NoDuplicateIds
  /\ [][\A c \in Procs :
          (Delivered(c) /\ HasId(sessions[c][Head(feed[c]).session_id], Head(feed[c]).id))
            => sessions'[c] = sessions[c]]_vars

\* a second copy of a message the room already lists is about to be delivered
C1_Witness ==
  \E c \in Procs :
    /\ feed[c] # <<>>
    /\ Head(feed[c]) \in Range(sessions[c][Head(feed[c]).session_id])
    /\ Len(sessions[c][Head(feed[c]).session_id]) = 2

\* C2: a history response applied to a room keeps every message the room's
\* list already held (in particular one merged from the feed while the
\* request was in flight) and the list then holds the whole response.
C2_MergePreservesConcurrentWrites ==
  [][\A c \in Procs : \A f \in fetches[c] :
       Resolved(c, f) =>
         /\ Range(sessions[c][f.room]) \subseteq Range(sessions'[c][f.room])
         /\ Range(f.data) \subseteq Range(sessions'[c][f.room])]_vars

IsSorted(msgs) ==
  \A i, j \in 1..Len(msgs) : i < j => msgs[i].timestamp <= msgs[j].timestamp

\* C3: the message list of every room of every client is sorted ascending by
\* timestamp in every reachable state.
C3_Ordering == \A c \in Procs, r \in Rooms : IsSorted(sessions[c][r])

\* C4: generateResponse is called at most once for a user message, and only by
\* the client whose handleSendMessage created the message.
C4_AtMostOneTrigger ==
  \A e \in BagToSet(genCalls) :
    /\ CopiesIn(e, genCalls) = 1
    /\ \A e2 \in BagToSet(genCalls) : e2.for = e.for => e2 = e
    /\ \E s \in Sends : sends[s].msg.id = e.for /\ sends[s].client = e.by

\* a client other than the sender lists a user message for which the sender
\* has called generateResponse
C4_Witness ==
  \E c \in Procs, r \in Rooms : \E i \in 1..Len(sessions[c][r]) :
    /\ sessions[c][r][i].role = "user"
    /\ sessions[c][r][i].user_name # c
    /\ \E e \in BagToSet(genCalls) : e.for = sessions[c][r][i].id

\* C5: a client holds at most one open channel per room, and none on a room
\* that is not its active room.
C5_SubscriptionLifetime ==
  \A c \in Procs, r \in Rooms :
    /\ channels[c][r] <= 1
    /\ channels[c][r] > 0 => r = activeSessionId[c]

\* a client came back to the first room after leaving it
C5_Witness ==
  \E c \in Procs :
    /\ switches >= 2
    /\ activeSessionId[c] = FirstRoom
    /\ channels[c][FirstRoom] = 1

\* C6: a history response for a room that is no longer the active room of
\* the client is not applied: the room's list is left unchanged.
C6_LateHistoryIgnored ==
  [][\A c \in Procs : \A f \in fetches[c] :
       (Resolved(c, f) /\ f.room # activeSessionId[c])
         => sessions'[c][f.room] = sessions[c][f.room]]_vars

\* C7: when the history reload of a reactivated room completes, the remote
\* table has not changed since the client left the room, and the client's
\* list held the rows of the table when it left, the room's list is again the
\* list the client had when it left.
C7_ResubscriptionSafety ==
  [][\A c \in Procs : \A f \in fetches[c] :
       (/\ Resolved(c, f)
        /\ f.room = activeSessionId[c]
        /\ leaveRows[c][f.room] = Len(table[f.room])
        /\ Range(leaveSnap[c][f.room]) = Range(table[f.room])
        /\ f.data = SelectHistory(table[f.room]))
         => sessions'[c][f.room] = leaveSnap[c][f.room]]_vars

AgentRows(r) == {i \in 1..Len(table[r]) : table[r][i].role = "model"}

AgentEntries(c, r) == {i \in 1..Len(sessions[c][r]) : sessions[c][r][i].role = "model"}

\* the sends of room r whose generation returned and whose reply was sent off
Replied(r) == {s \in Sends : sends[s].session_id = r /\ sends[s].pc = "done"}

\* C8: a send whose generation failed writes no agent message: it has built
\* none, and the agent rows of a room (and the agent entries of every client's
\* list) are no more than the sends of that room whose generation returned.
C8_ReplySuppression ==
  /\ \A s \in Sends : sends[s].pc = "genError" => sends[s].bot = NoMsg
  /\ \A r \in Rooms :
       /\ Cardinality(AgentRows(r)) <= Cardinality(Replied(r))
       /\ \A c \in Procs : Cardinality(AgentEntries(c, r)) <= Cardinality(Replied(r))

\* generation failed for a message that is in the remote table and in the
\* sender's list, and the room has no agent message
C8_Witness ==
  \E s \in Sends :
    /\ sends[s].pc = "genError"
    /\ sends[s].msg \in Range(table[sends[s].session_id])
    /\ sends[s].msg \in Range(sessions[sends[s].client][sends[s].session_id])
    /\ AgentRows(sends[s].session_id) = {}

Snapshot == sessions[Sender][FirstRoom]

\* the snapshot is empty, [m1], or [m1, agentMsg] with an agent message
SnapshotShape ==
  \/ Snapshot = <<>>
  \/ /\ sends # <<>>
     /\ \/ Snapshot = <<sends[1].msg>>
        \/ Snapshot = <<sends[1].msg, sends[1].bot>> /\ sends[1].bot.role = "model"

M1Written == sends # <<>> /\ sends[1].msg \in Range(table[FirstRoom])

ReplyGenerated == sends # <<>> /\ sends[1].response = <<"hello">>

ReplyWritten == sends # <<>> /\ sends[1].bot \in Range(table[FirstRoom])

SnapshotFinal ==
  /\ sends # <<>>
  /\ Snapshot = <<sends[1].msg, sends[1].bot>>
  /\ sends[1].msg.role = "user"
  /\ sends[1].bot.role = "model"

CallsFor(s) == {e \in BagToSet(genCalls) : e.for = sends[s].msg.id}

\* C11: a user message whose insert succeeded has exactly one generateResponse
\* call, made by its sender; a user message whose insert is pending or failed
\* has none, and a failed one has no agent message built for it.
C11_OneTriggerPerSuccessfulSend ==
  \A s \in Sends :
    /\ sends[s].msg \in Range(table[sends[s].session_id])
         <=> sends[s].pc \notin {"insert", "writeError"}
    /\ sends[s].pc \notin {"insert", "writeError"} =>
         /\ CallsFor(s) = {[by |-> sends[s].client, for |-> sends[s].msg.id]}
         /\ CopiesIn([by |-> sends[s].client, for |-> sends[s].msg.id], genCalls) = 1
    /\ sends[s].pc \in {"insert", "writeError"} =>
         /\ CallsFor(s) = {}
         /\ sends[s].bot = NoMsg

\* one send failed to write and another one was written and triggered a call
C11_Witness ==
  \E s, t \in Sends :
    /\ sends[s].pc = "writeError"
    /\ sends[t].pc = "generate"
    /\ CallsFor(t) # {}

\* what the interface of client c is rendered from
View(c) == <<sessions[c], activeSessionId[c]>>

\* the insert of the user message of send s has just failed
WriteFailed(s) ==
  /\ s \in Sends
  /\ sends[s].pc = "insert"
  /\ sends'[s].pc = "writeError"

\* C12: when the insert of the user's own message fails, the sender's client
\* shows it (what it renders changes), and the failed message is not in the
\* room's list.
C12_WriteFailureSurfaced ==
  [][\A s \in 1..Len(sends) :
       WriteFailed(s) =>
         /\ View(sends[s].client)' # View(sends[s].client)
         /\ ~HasId(sessions'[sends[s].client][sends[s].session_id], sends[s].msg.id)]_vars

\* the history request f of client c has just ended without an answer
Failed(c, f) == f \in fetches[c] /\ f.stage = "sent" /\ fetches'[c] = fetches[c] \ {f}

\* C13: a failed history request leaves every list and every channel as they
\* were; the active room keeps its open channel; and an event delivered for a
\* message the room does not list is appended to the room's list.
C13_FetchFailureNotFatal ==
  /\ [](\A c \in Procs : channels[c][activeSessionId[c]] = 1)
  /\ [][\A c \in Procs : \A f \in fetches[c] :
          Failed(c, f) => sessions' = sessions /\ channels' = channels]_vars
  /\ [][\A c \in Procs :
          (Delivered(c) /\ ~HasId(sessions[c][Head(feed[c]).session_id], Head(feed[c]).id))
            => sessions'[c][Head(feed[c]).session_id]
                 = Append(sessions[c][Head(feed[c]).session_id], Head(feed[c]))]_vars

\* the first history request has failed, the room lists a message merged from
\* the feed and the next one is on its way on the open channel
C13_Witness ==
  \E c \in Procs :
    /\ switches = 0
    /\ fetches[c] = {}
    /\ channels[c][FirstRoom] = 1
    /\ Len(sessions[c][FirstRoom]) = 1
    /\ feed[c] # <<>>
    /\ ~HasId(sessions[c][FirstRoom], Head(feed[c]).id)

\* the active room of the client has no open channel
FeedLost == channels[Sender][activeSessionId[Sender]] = 0

\* C14: when the feed of the active room is lost the client subscribes again
\* and reloads the room's history, and every row of the room's table
\* (including one written while the feed was lost) eventually is in the
\* client's list.
C14_FeedDropRecovery ==
  /\ FeedLost ~> ~FeedLost
  /\ FeedLost ~> (fetches[Sender] # {})
  /\ \A i \in 1..MaxMsgs :
       (Len(table[FirstRoom]) >= i)
         ~> (/\ Len(table[FirstRoom]) >= i
             /\ table[FirstRoom][i] \in Range(sessions[Sender][FirstRoom]))

\* a history request for the active room of c has not been applied yet
Loading(c) == \E f \in fetches[c] : f.room = activeSessionId[c]

\* C15 (as stated): the channel of the active room is opened only after its
\* history request has completed and been applied, and no event of the feed is
\* merged into the room while the request is outstanding.
C15_SubscribeAfterLoad ==
  /\ [](\A c \in Clients :
          c \in Procs /\ Loading(c) => channels[c][activeSessionId[c]] = 0)
  /\ [][\A c \in Procs :
          Loading(c) /\ Delivered(c) => sessions'[c] = sessions[c]]_vars

\* C15 (amended): activating a room opens its channel in the same step that
\* issues the history request, so the channel is open while the room is
\* loading, and an event with a new id delivered while the request is
\* outstanding is appended to the room's list.
C15_SubscribeWithLoad ==
  /\ [](\A c \in Clients :
          c \in Procs /\ Loading(c) => channels[c][activeSessionId[c]] = 1)
  /\ [][\A c \in Procs :
          activeSessionId'[c] # activeSessionId[c]
            => /\ channels'[c][activeSessionId'[c]] = 1
               /\ [room |-> activeSessionId'[c], stage |-> "sent", data |-> <<>>]
                    \in fetches'[c]]_vars
  /\ [][\A c \in Procs :
          LET r == activeSessionId[c] IN
          /\ Loading(c)
          /\ Delivered(c)
          /\ ~HasId(sessions[c][r], Head(feed[c]).id)
          => sessions'[c][r] = Append(sessions[c][r], Head(feed[c]))]_vars

\* a room activated by a selection shows a message merged from the feed while
\* its history request is still outstanding
C15_Witness ==
  \E c \in Procs :
    /\ switches = 1
    /\ activeSessionId[c] # FirstRoom
    /\ [room |-> activeSessionId[c], stage |-> "sent", data |-> <<>>] \in fetches[c]
    /\ sessions[c][activeSessionId[c]] # <<>>

\* C16: two clients stay in the first room; every row committed to the room's
\* table eventually is in the list of each of them.
C16_EventualConsistency ==
  \A c \in Clients : \A i \in 1..MaxMsgs :
    (Len(table[FirstRoom]) >= i)
      ~> (/\ Len(table[FirstRoom]) >= i
          /\ table[FirstRoom][i] \in Range(sessions[c][FirstRoom]))

\* generateResponse is called for send s in this step
GenStarted(s) ==
  /\ s \in Sends
  /\ [by |-> sends[s].client, for |-> sends[s].msg.id] \notin BagToSet(genCalls)
  /\ [by |-> sends[s].client, for |-> sends[s].msg.id] \in BagToSet(genCalls')

\* the generateResponse call of send s returns or throws in this step
GenCompleted(s) ==
  /\ s \in Sends
  /\ sends[s].pc = "generate"
  /\ sends'[s].pc # "generate"

\* the user message of send s is a row of its room's table
Committed(s) == sends[s].msg \in Range(table[sends[s].session_id])

\* the user message of send s is in the sender's list of its room
Visible(s) == HasId(sessions[sends[s].client][sends[s].session_id], sends[s].msg.id)

C18_ReplyRoomBinding ==
  /\ \A s \in Sends :
       sends[s].bot # NoMsg =>
         /\ sends[s].bot.session_id = sends[s].msg.session_id
         /\ sends[s].msg \in Range(table[sends[s].bot.session_id])
  /\ \A r \in Rooms : \A i \in AgentRows(r) :
       /\ table[r][i].session_id = r
       /\ \E s \in Sends : sends[s].bot = table[r][i] /\ sends[s].msg.session_id = r

\* a reply was written to the room of its user message after the sender had
\* moved to another room
C18_Witness ==
  \E s \in Sends :
    /\ sends[s].pc = "done"
    /\ sends[s].bot \in Range(table[sends[s].msg.session_id])
    /\ activeSessionId[sends[s].client] # sends[s].msg.session_id

\* C19: every message of a client's list for a room is a row of that room's
\* table, every client has a list for each room and no others, and a feed
\* delivery or the application of a history result changes the list of no
\* room but the one it is for.
C19_LocalViewBackedByLog ==
  /\ [](\A c \in Clients : c \in Procs =>
          /\ DOMAIN sessions[c] = Rooms
          /\ \A r \in Rooms : Range(sessions[c][r]) \subseteq Range(table[r]))
  /\ [][\A c \in Procs :
          Delivered(c) =>
            \A r \in Rooms : r # Head(feed[c]).session_id
                               => sessions'[c][r] = sessions[c][r]]_vars
  /\ [][\A c \in Procs : \A f \in fetches[c] :
          Resolved(c, f) =>
            \A r \in Rooms : r # f.room => sessions'[c][r] = sessions[c][r]]_vars

\* one send failed to write, another one made in the same room is in its
\* sender's list, and the failed one is in nobody's
C19_Witness ==
  \E s, t \in Sends :
    /\ sends[s].pc = "writeError"
    /\ sends[t].session_id = sends[s].session_id
    /\ HasId(sessions[sends[t].client][sends[t].session_id], sends[t].msg.id)
    /\ \A c \in Procs, r \in Rooms : ~HasId(sessions[c][r], sends[s].msg.id)

\* C20: the context of a send holds at most K = 5 messages and is the last
\* min(K, n) messages, in list order, of the n the sender's list of the room
\* held when the message was sent; it is kept as taken until the reply is
\* requested.
C20_BoundedReplyContext ==
  /\ [][Len(sends') = Len(sends) + 1 =>
          LET new  == sends'[Len(sends')]
              msgs == sessions[new.client][new.session_id]
              n    == Len(msgs)
              k    == Len(new.context)
          IN /\ k <= 5
             /\ k = Min(5, n)
             /\ \A i \in 1..k : new.context[i] = msgs[n - k + i]]_vars
  /\ [][\A s \in 1..Len(sends) : sends'[s].context = sends[s].context]_vars

\* a reply was requested for a message sent from a list of more than five
\* messages: its context starts after the oldest message of the list
C20_Witness ==
  \E s \in Sends :
    /\ sends[s].pc = "generate"
    /\ Len(sends[s].context) = 5
    /\ Len(sessions[sends[s].client][sends[s].session_id]) > 5
    /\ sends[s].context[1] # sessions[sends[s].client][sends[s].session_id][1]
    /\ sends[s].context[5].id > 100 + 5

====
